---- MODULE Spec2Model ----
(***************************************************************************)
(* Model of YouTubeDataCollector (youtube_data_collector.py): one run of   *)
(* fetch_and_store_data is a sequence of steps separated by the remote     *)
(* calls it makes (subscriptions.list, search.list, videos.list), each of  *)
(* which either answers or raises HttpError.  The checkpoint file          *)
(* processed_channels.txt and the videos table survive from run to run.    *)
(***************************************************************************)
EXTENDS Integers, Sequences, FiniteSets, TLC

\* ---------------------------------------------------------------- bounds
MaxSubs == 2      \* longest subscription list the server holds
MaxVideos == 2    \* most videos the search returns for one channel
MaxRows == 1      \* a new run starts only while the table holds fewer rows

\* ------------------------------------------------------- program constants
MaxResults == 50  \* maxResults=50 of every list call

\* ------------------------------------------------------------ the platform
Channels == {"A", "B"}            \* channels the account can subscribe to
StaleIds == {"Z"}                 \* ids of channels no longer subscribed
AllIds == Channels \cup StaleIds

TitleOf == [c \in Channels |-> IF c = "A" THEN "title-A" ELSE "title-B"]

\* Titles are display strings and need not be unique: the videos of a channel
\* all carry the same title and are told apart by their videoId, which the
\* videos table does not store.
VideoTitleOf == [c \in Channels |-> IF c = "A" THEN "video-A" ELSE "video-B"]

\* a subscription item: item['snippet']['resourceId']['channelId'] and
\* item['snippet']['title']
Items == {[channelId |-> c, title |-> TitleOf[c]] : c \in Channels}

\* a search result: video['id']['videoId'] and video['snippet']['title']
VideoOf(c, i) == [videoId |-> <<c, i>>, title |-> VideoTitleOf[c]]

Range(s) == {s[i] : i \in 1..Len(s)}
SeqsUpTo(S, n) == UNION {[1..k -> S] : k \in 0..n}
Min(a, b) == IF a < b THEN a ELSE b
Ids(list) == {list[i].channelId : i \in 1..Len(list)}
Distinct(list) == \A i, j \in 1..Len(list) : list[i].channelId = list[j].channelId => i = j

\* the 'statistics' dictionaries the platform answers with: any field may
\* be omitted
NoStats == [k \in {} |-> 0]
StatsChoices == {[viewCount |-> 5, likeCount |-> 2]}

\* ------------------------------------------------------------- pagination
\* A continuation token is the offset of the next page in the list; the
\* first call passes None, which the server reads as offset 0.  Every token
\* the server hands out is a positive offset, hence truthy.
NoToken == 0

\* sizes the server may give the page starting at offset tok of a list of n
PageSizes(n, tok) == IF n - tok = 0 THEN {0} ELSE 1..Min(MaxResults, n - tok)
ServerItems(list, tok, k) == SubSeq(list, tok + 1, tok + k)
ServerNextToken(n, tok, k) == IF tok + k < n THEN tok + k ELSE NoToken

\* `if not next_page_token: break`
LastPage(next_page_token) == next_page_token = NoToken

\* `count += len(subscriptions['items'])`
AddCountReplace(count, items) == Len(items)
AddCount(count, items) == count + Len(items)

\* ------------------------------------------------------- checkpoint file
\* The file is held as the set of its lines: the writer emits every element
\* of the set once, each followed by a newline, and the reader keeps the set
\* of the lines, so the order of the lines never reaches the program.
AbsentFile == [exists |-> FALSE, lines |-> {}]

\* set(file.read().splitlines()), or set() when the file does not exist
load_processed_channels(f) == IF f.exists THEN f.lines ELSE {}

\* open(..., 'w') creates or truncates the file, then one line per element
save_processed_channels(processed_channels) ==
    [exists |-> TRUE, lines |-> processed_channels]

\* `if len(processed_channels) >= total_subscriptions: clear()`
ResetDueStrict(processed_channels, total_subscriptions) ==
    Cardinality(processed_channels) > total_subscriptions
ResetDueOnEqual(processed_channels, total_subscriptions) ==
    Cardinality(processed_channels) = total_subscriptions
ResetDue(processed_channels, total_subscriptions) ==
    Cardinality(processed_channels) >= total_subscriptions

\* `if channel_id not in processed_channels`
ShouldProcessAlways(channel_id, processed_channels) == TRUE
ShouldProcess(channel_id, processed_channels) == channel_id \notin processed_channels

\* `processed_channels.add(channel_id)`
MarkProcessedByTitle(processed_channels, item) == processed_channels \cup {item.title}
MarkProcessed(processed_channels, item) == processed_channels \cup {item.channelId}

\* ---------------------------------------------------------------- storage
Get(d, key, default) == IF key \in DOMAIN d THEN d[key] ELSE default

\* the tuple save_to_database inserts
RowVideoFirst(channel_title, video_title, statistics) ==
    <<video_title, channel_title, Get(statistics, "viewCount", 0),
      Get(statistics, "likeCount", 0), Get(statistics, "commentCount", 0)>>
Row(channel_title, video_title, statistics) ==
    <<channel_title, video_title, Get(statistics, "viewCount", 0),
      Get(statistics, "likeCount", 0), Get(statistics, "commentCount", 0)>>

\* answers of videos().list(part='statistics'): no 'items' key, an empty
\* item list, or one item with its statistics
StatsResponses ==
    {[kind |-> "absent", statistics |-> NoStats], [kind |-> "empty", statistics |-> NoStats]}
    \cup {[kind |-> "items", statistics |-> st] : st \in StatsChoices}

\* `if 'items' in video_details and video_details['items']`
HasItemsKeyOnly(video_details) == video_details.kind # "absent"
HasItems(video_details) == video_details.kind = "items"

\* what the except clause leaves in the checkpoint file
FileAfterErrorSaved(f, processed_channels) == save_processed_channels(processed_channels)
FileAfterError(f, processed_channels) == f

VARIABLES
    file,        \* processed_channels.txt
    db,          \* rows of the videos table, in insertion order
    pc,          \* position of the run
    subs,        \* the account's subscription list on the platform
    stable,      \* history: subs has not changed since the run started
    count,       \* get_total_subscription_count: count
    total,       \* total_subscriptions
    tok,         \* next_page_token of the subscription traversal under way
    page,        \* subscriptions['items'] of the page being examined
    pageNext,    \* subscriptions.get('nextPageToken') of that page
    idx,         \* position of the item loop in page
    processed,   \* processed_channels
    cur,         \* the item process_subscription is working on
    nvids,       \* videos the platform holds per channel (-1: not searched)
    vtok,        \* process_subscription: next_page_token
    vpage,       \* videos_request['items']
    vnext,       \* videos_request.get('nextPageToken')
    vidx,        \* position of the video loop in vpage
    file0,       \* history: the checkpoint file when the run started
    db0,         \* history: the table when the run started
    examined,    \* history: items the item loop has examined, in order
    invoked,     \* history: channel ids process_subscription was called for
    inserted,    \* history: rows save_to_database inserted in this run
    preReset,    \* history: processed_channels just before the reset rule
    resetFired,  \* history: the reset rule cleared the set
    lookups,     \* history: statistics lookups answered in this run
    skipped      \* history: those of them answered without an item

vars == <<file, db, pc, subs, stable, count, total, tok, page,
          pageNext, idx, processed, cur, nvids, vtok, vpage, vnext, vidx,
          file0, db0, examined, invoked, inserted, preReset, resetFired,
          lookups, skipped>>

serverVars == <<subs, stable>>
countVars == <<count, total>>
pageVars == <<page, pageNext, idx>>
videoVars == <<cur, vtok, vpage, vnext, vidx>>
startVars == <<file0, db0>>
resetVars == <<preReset, resetFired>>
lookupVars == <<lookups, skipped>>

NoItem == [channelId |-> "", title |-> ""]
NotSearched == [c \in Channels |-> -1]

Init ==
    /\ file \in {AbsentFile} \cup
                {save_processed_channels(S) : S \in SUBSET AllIds}
    /\ db = <<>>
    /\ pc = "idle"
    /\ subs = <<>> /\ stable = TRUE
    /\ count = 0 /\ total = 0
    /\ tok = NoToken
    /\ page = <<>> /\ pageNext = NoToken /\ idx = 1
    /\ processed = {}
    /\ cur = NoItem
    /\ nvids = NotSearched
    /\ vtok = NoToken /\ vpage = <<>> /\ vnext = NoToken /\ vidx = 1
    /\ file0 = file /\ db0 = <<>>
    /\ examined = <<>> /\ invoked = <<>> /\ inserted = <<>>
    /\ preReset = {} /\ resetFired = FALSE
    /\ lookups = 0 /\ skipped = 0

\* fetch_and_store_data is entered: load_processed_channels, and the first
\* call of get_total_subscription_count is about to be made
StartRun ==
    /\ pc \in {"idle", "done", "aborted", "escaped"}
    /\ Len(db) < MaxRows
    /\ subs' \in SeqsUpTo(Items, MaxSubs)
    /\ stable' = TRUE
    /\ processed' = load_processed_channels(file)
    /\ count' = 0 /\ total' = 0
    /\ tok' = NoToken
    /\ page' = <<>> /\ pageNext' = NoToken /\ idx' = 1
    /\ cur' = NoItem /\ nvids' = NotSearched
    /\ vtok' = NoToken /\ vpage' = <<>> /\ vnext' = NoToken /\ vidx' = 1
    /\ file0' = file /\ db0' = db
    /\ examined' = <<>> /\ invoked' = <<>> /\ inserted' = <<>>
    /\ preReset' = {} /\ resetFired' = FALSE
    /\ lookups' = 0 /\ skipped' = 0
    /\ pc' = "count"
    /\ UNCHANGED <<file, db>>

\* HttpError raised inside the try block: the except clause logs it
Abort ==
    /\ pc' = "aborted"
    /\ file' = FileAfterError(file, processed)

\* one page of get_total_subscription_count
CountPage ==
    /\ pc = "count"
    /\ \E k \in PageSizes(Len(subs), tok) :
         LET items == ServerItems(subs, tok, k)
             next_page_token == ServerNextToken(Len(subs), tok, k)
         IN /\ count' = AddCount(count, items)
            /\ tok' = IF LastPage(next_page_token) THEN NoToken ELSE next_page_token
            /\ total' = IF LastPage(next_page_token) THEN count' ELSE total
            /\ pc' = IF LastPage(next_page_token) THEN "fetch" ELSE "count"
    /\ UNCHANGED <<file, db, serverVars, pageVars, processed, videoVars,
                   nvids, startVars, examined, invoked, inserted, resetVars, lookupVars>>

\* HttpError in get_total_subscription_count, which is called outside the try
CountPageError ==
    /\ pc = "count"
    /\ pc' = "escaped"
    /\ UNCHANGED <<file, db, serverVars, countVars, tok, pageVars, processed,
                   videoVars, nvids, startVars, examined, invoked, inserted,
                   resetVars, lookupVars>>

\* the user subscribes or unsubscribes after the count was taken and before
\* the processing traversal asks for its first page
SubscriptionsChange ==
    /\ pc = "fetch"
    /\ tok = NoToken
    /\ stable
    /\ subs' \in SeqsUpTo(Items, MaxSubs) \ {subs}
    /\ stable' = FALSE
    /\ UNCHANGED <<file, db, pc, countVars, tok, pageVars, processed, videoVars,
                   nvids, startVars, examined, invoked, inserted, resetVars, lookupVars>>

\* subscriptions().list(part='snippet', ...).execute() answers
FetchPage ==
    /\ pc = "fetch"
    /\ \E k \in PageSizes(Len(subs), tok) :
         /\ page' = ServerItems(subs, tok, k)
         /\ pageNext' = ServerNextToken(Len(subs), tok, k)
    /\ idx' = 1
    /\ pc' = "items"
    /\ UNCHANGED <<file, db, serverVars, countVars, tok, processed, videoVars,
                   nvids, startVars, examined, invoked, inserted, resetVars, lookupVars>>

FetchPageError ==
    /\ pc = "fetch"
    /\ Abort
    /\ UNCHANGED <<db, serverVars, countVars, tok, pageVars, processed,
                   videoVars, nvids, startVars, examined, invoked, inserted,
                   resetVars, lookupVars>>

\* one iteration of `for item in subscriptions['items']` up to the first
\* remote call of process_subscription
ExamineItem ==
    /\ pc = "items"
    /\ idx <= Len(page)
    /\ LET item == page[idx]
           channel_id == item.channelId
       IN /\ examined' = Append(examined, item)
          /\ IF ShouldProcess(channel_id, processed)
             THEN /\ invoked' = Append(invoked, channel_id)
                  /\ cur' = item
                  /\ vtok' = NoToken
                  /\ pc' = "search"
                  /\ UNCHANGED idx
             ELSE /\ idx' = idx + 1
                  /\ UNCHANGED <<invoked, cur, vtok, pc>>
    /\ UNCHANGED <<file, db, serverVars, countVars, tok, page, pageNext,
                   processed, nvids, vpage, vnext, vidx, startVars, inserted,
                   resetVars, lookupVars>>

\* the page is exhausted and carries a continuation token
NextPage ==
    /\ pc = "items"
    /\ idx > Len(page)
    /\ ~LastPage(pageNext)
    /\ tok' = pageNext
    /\ pc' = "fetch"
    /\ UNCHANGED <<file, db, serverVars, countVars, pageVars, processed,
                   videoVars, nvids, startVars, examined, invoked, inserted,
                   resetVars, lookupVars>>

\* the last page is exhausted: the reset rule, then save_processed_channels
Finish ==
    /\ pc = "items"
    /\ idx > Len(page)
    /\ LastPage(pageNext)
    /\ tok' = pageNext
    /\ preReset' = processed
    /\ resetFired' = ResetDue(processed, total)
    /\ processed' = IF ResetDue(processed, total) THEN {} ELSE processed
    /\ file' = save_processed_channels(processed')
    /\ pc' = "done"
    /\ UNCHANGED <<db, serverVars, countVars, pageVars, videoVars, nvids,
                   startVars, examined, invoked, inserted, lookupVars>>

\* search().list(channelId=..., type='video', ...).execute() answers
SearchPage ==
    /\ pc = "search"
    /\ \E n \in (IF nvids[cur.channelId] = -1 THEN 0..MaxVideos
                                               ELSE {nvids[cur.channelId]}) :
         /\ nvids' = [nvids EXCEPT ![cur.channelId] = n]
         /\ \E k \in PageSizes(n, vtok) :
              /\ vpage' = [i \in 1..k |-> VideoOf(cur.channelId, vtok + i)]
              /\ vnext' = ServerNextToken(n, vtok, k)
    /\ vidx' = 1
    /\ pc' = "videos"
    /\ UNCHANGED <<file, db, serverVars, countVars, tok, pageVars, processed,
                   cur, vtok, startVars, examined, invoked, inserted, resetVars,
                   lookupVars>>

SearchPageError ==
    /\ pc = "search"
    /\ Abort
    /\ UNCHANGED <<db, serverVars, countVars, tok, pageVars, processed,
                   videoVars, nvids, startVars, examined, invoked, inserted,
                   resetVars, lookupVars>>

\* process_video with the statistics lookup answering
ProcessVideo ==
    /\ pc = "videos"
    /\ vidx <= Len(vpage)
    /\ \E video_details \in StatsResponses :
         LET video == vpage[vidx]
             row == Row(cur.title, video.title, video_details.statistics)
         IN /\ lookups' = lookups + 1
            /\ skipped' = IF video_details.kind = "items" THEN skipped ELSE skipped + 1
            /\ IF HasItems(video_details)
               THEN IF video_details.kind = "items"
                    THEN /\ db' = Append(db, row)
                         /\ inserted' = Append(inserted, row)
                         /\ vidx' = vidx + 1
                         /\ UNCHANGED pc
                    ELSE \* video_details['items'][0] raises IndexError
                         /\ pc' = "escaped"
                         /\ UNCHANGED <<db, inserted, vidx>>
               ELSE /\ vidx' = vidx + 1
                    /\ UNCHANGED <<db, inserted, pc>>
    /\ UNCHANGED <<file, serverVars, countVars, tok, pageVars, processed, cur,
                   nvids, vtok, vpage, vnext, startVars, examined, invoked, resetVars>>

ProcessVideoError ==
    /\ pc = "videos"
    /\ vidx <= Len(vpage)
    /\ Abort
    /\ UNCHANGED <<db, serverVars, countVars, tok, pageVars, processed,
                   videoVars, nvids, startVars, examined, invoked, inserted,
                   resetVars, lookupVars>>

\* the page of videos is exhausted and carries a continuation token
NextVideoPage ==
    /\ pc = "videos"
    /\ vidx > Len(vpage)
    /\ ~LastPage(vnext)
    /\ vtok' = vnext
    /\ pc' = "search"
    /\ UNCHANGED <<file, db, serverVars, countVars, tok, pageVars, processed,
                   cur, nvids, vpage, vnext, vidx, startVars, examined, invoked,
                   inserted, resetVars, lookupVars>>

\* process_subscription returns; processed_channels.add(channel_id)
EndSubscription ==
    /\ pc = "videos"
    /\ vidx > Len(vpage)
    /\ LastPage(vnext)
    /\ vtok' = vnext
    /\ processed' = MarkProcessed(processed, cur)
    /\ idx' = idx + 1
    /\ pc' = "items"
    /\ UNCHANGED <<file, db, serverVars, countVars, tok, page, pageNext, cur,
                   nvids, vpage, vnext, vidx, startVars, examined, invoked,
                   inserted, resetVars, lookupVars>>

Next ==
    \/ StartRun
    \/ CountPage
    \/ CountPageError
    \/ SubscriptionsChange
    \/ FetchPage
    \/ FetchPageError
    \/ ExamineItem
    \/ NextPage
    \/ Finish
    \/ SearchPage
    \/ SearchPageError
    \/ ProcessVideo
    \/ ProcessVideoError
    \/ NextVideoPage
    \/ EndSubscription

Spec == Init /\ [][Next]_vars

\* ------------------------------------------------------------ properties
Count(seq, x) == Cardinality({i \in 1..Len(seq) : seq[i] = x})
Started == pc \in {"fetch", "items", "search", "videos", "done", "aborted"}
EmptyFile == [exists |-> TRUE, lines |-> {}]

\* C1: when the full pass completes and the in-memory set has at least
\* total_subscriptions elements, the set is cleared before it is saved, so
\* the checkpoint file left for the next run is empty.
ResetPersistsEmpty ==
    (pc = "done" /\ Cardinality(preReset) >= total) => (resetFired /\ file = EmptyFile)

ResetPersistsEmptyWitness ==
    /\ pc = "done"
    /\ Cardinality(preReset) >= total
    /\ total > 0
    /\ load_processed_channels(file0) # {}
    /\ invoked # <<>>
    /\ file = EmptyFile

\* C2: whatever pages the server cuts the list into, the counting traversal
\* returns the length of the list and the item loop examines the items of
\* the list in order, each once.
PaginationExact ==
    /\ pc = "count" => count = tok
    /\ (Started /\ stable) => total = Len(subs)
    /\ (pc \in {"items", "search", "videos", "done"}) =>
          /\ Len(examined) <= Len(subs)
          /\ examined = SubSeq(subs, 1, Len(examined))
    /\ pc = "done" => examined = subs

PaginationExactWitness ==
    /\ pc = "done"
    /\ stable
    /\ Len(subs) = MaxSubs
    /\ Len(page) < Len(subs)
    /\ total = Len(subs)
    /\ examined = subs

\* C3: process_subscription is called once for every channel id of the list
\* that the loaded checkpoint lacks and never for an id the checkpoint holds,
\* a second occurrence of an id included; before the reset rule the set is
\* the loaded checkpoint united with the ids of the list.
ProcessOncePerNewChannel ==
    /\ \A c \in AllIds :
          /\ Count(invoked, c) <= 1
          /\ c \in load_processed_channels(file0) => Count(invoked, c) = 0
    /\ pc = "done" =>
          /\ \A c \in AllIds :
                Count(invoked, c) =
                   IF c \in Ids(subs) \ load_processed_channels(file0) THEN 1 ELSE 0
          /\ preReset = load_processed_channels(file0) \cup Ids(subs)

ProcessOncePerNewChannelWitness ==
    /\ pc = "done"
    /\ Len(subs) = 2
    /\ Distinct(subs)
    /\ load_processed_channels(file0) = {subs[1].channelId}
    /\ invoked = <<subs[2].channelId>>
    /\ preReset = Ids(subs)

\* C4: a transport error inside the try block ends the run without saving:
\* the checkpoint file is the one the run found, channels processed earlier
\* in the run are not in it, and the rows inserted before the error stay.
AbortKeepsCheckpoint ==
    pc = "aborted" => (file = file0 /\ db = db0 \o inserted)

AbortKeepsCheckpointWitness ==
    /\ pc = "aborted"
    /\ inserted # <<>>
    /\ processed # load_processed_channels(file0)
    /\ file = file0

\* C5: no transport error leaves fetch_and_store_data as an exception.
NoTransportErrorEscapes == pc # "escaped"

\* C6: a statistics lookup answered with an empty or absent item list
\* inserts no row, raises nothing, and the video loop moves to the next video.
EmptyStatisticsSkipped ==
    [][skipped' = skipped + 1 => (db' = db /\ pc' = "videos" /\ vidx' = vidx + 1)]_vars

EmptyStatisticsSkippedWitness ==
    /\ pc = "done"
    /\ skipped >= 1
    /\ Len(inserted) >= 1
    /\ Len(inserted) + skipped = lookups

\* C7 as stated: when the reset rule clears the set, the set holds no id
\* that is absent from the current subscription list.
ResetSetWithinSubscriptions == resetFired => preReset \subseteq Ids(subs)

\* C7 amended: when the reset rule clears the set, every id of the set that
\* is absent from the current subscription list was in the checkpoint file
\* the run loaded.
ResetSetStaleOnlyFromFile ==
    resetFired => (preReset \ Ids(subs)) \subseteq load_processed_channels(file0)

ResetSetStaleOnlyFromFileWitness ==
    /\ resetFired
    /\ preReset \ Ids(subs) # {}
    /\ invoked # <<>>

\* C8: from an absent checkpoint file and an empty table, an account with N
\* distinct subscriptions, one video each, every lookup answered with an
\* item: the run leaves N rows, one per channel with the channel's title,
\* the set has gathered the N ids, the reset fires and the file is empty.
EndToEndFreshRun ==
    (/\ pc = "done"
     /\ ~file0.exists
     /\ db0 = <<>>
     /\ stable
     /\ Distinct(subs)
     /\ \A c \in Ids(subs) : nvids[c] = 1
     /\ skipped = 0)
    => /\ Len(db) = Len(subs)
       /\ \A i \in 1..Len(subs) :
             Cardinality({j \in 1..Len(db) : db[j][1] = subs[i].title}) = 1
       /\ preReset = Ids(subs)
       /\ resetFired
       /\ file = EmptyFile

EndToEndFreshRunWitness ==
    /\ pc = "done"
    /\ ~file0.exists
    /\ db0 = <<>>
    /\ stable
    /\ Distinct(subs)
    /\ Len(subs) = 2
    /\ \A c \in Ids(subs) : nvids[c] = 1
    /\ skipped = 0
    /\ Len(db) = 2

\* C9 as stated: the checkpoint a run persists has fewer elements than the
\* total counted at the start of the run.
PersistedBelowTotal == pc = "done" => Cardinality(file.lines) < total

\* C9 amended: the checkpoint a run persists has fewer elements than the
\* total counted at the start of the run, except that with a total of zero
\* it is empty.
PersistedBelowTotalOrEmpty ==
    pc = "done" =>
       /\ file.exists
       /\ IF total = 0 THEN file.lines = {} ELSE Cardinality(file.lines) < total

PersistedBelowTotalOrEmptyWitness ==
    /\ pc = "done"
    /\ total = 0
    /\ load_processed_channels(file0) # {}
    /\ file = EmptyFile

\* C10: in a run whose subscription list does not change and has pairwise
\* distinct ids, no step turns an empty checkpoint file into a non-empty one,
\* and the step that completes the run leaves the file empty after calling
\* process_subscription for every listed channel the loaded file lacks.
StableRunsPersistEmpty ==
    [][(stable' /\ Distinct(subs')) =>
          /\ load_processed_channels(file) = {} => load_processed_channels(file') = {}
          /\ (pc # "done" /\ pc' = "done") =>
                /\ file' = EmptyFile
                /\ Range(invoked') = Ids(subs') \ load_processed_channels(file0')]_vars

StableRunsPersistEmptyWitness ==
    /\ pc = "done"
    /\ stable
    /\ Distinct(subs)
    /\ Len(subs) = 2
    /\ load_processed_channels(file0) # {}
    /\ Range(invoked) # {}
    /\ file = EmptyFile
====
